---- MODULE Spec2Model ----
(***************************************************************************)
(* QuizAppBE: the /get_questions proxy handler (backend/app.py,            *)
(* backend/utils.py) and the AWS helper classes DynamoDbService            *)
(* (backend/aws_integration/ddb_integration.py) and S3Service              *)
(* (backend/aws_integration/s3_integration.py).                            *)
(*                                                                         *)
(* The helpers are independent of one another, so each has its own         *)
(* specification over its own variables; the variables of the other        *)
(* helpers are parked at their idle values.                                *)
(*   SpecHttp      get_questions / get_questions_from_api                  *)
(*   SpecBatchGet  DynamoDbService.batch_get                               *)
(*   SpecPage      DynamoDbService.query_table / scan_table                *)
(*   SpecWrite     DynamoDbService.batch_upsert / transaction_write_items  *)
(*   SpecS3        S3Service.rename_file                                   *)
(* The remote services (the trivia API, DynamoDB, S3) are the environment: *)
(* every response the code can receive is a nondeterministic choice.       *)
(***************************************************************************)
EXTENDS Integers, Sequences, FiniteSets, TLC

VARIABLES
    \* ---- /get_questions
    hpc,            \* "idle" | "waiting" | "returned" | "raised"
    query,          \* the query string of the request: each parameter None or Some(value)
    upstreamCalls,  \* the params of every requests.get issued, in order
    upstreamBody,   \* the body of the upstream response, <<>> before it arrives
    hret,           \* the value the handler returned, <<>> before it returns
    \* ---- DynamoDbService.batch_get
    bgpc,           \* "entry" | "loop" | "returned" | "raised"
    stored,         \* the items the tables hold: a set of <<table, key>>
    arg_batch_keys, \* the batch_keys argument as the caller passed it
    batch_keys,     \* the local batch_keys, rebound to the unprocessed keys
    tries,
    sleepy_time,
    retrieved,
    bglog,          \* what batch_get did, in order: batch_get_item calls and sleeps
    \* ---- DynamoDbService.query_table / scan_table
    pgpc,           \* "entry" | "loop" | "returned" | "raised"
    pgop,           \* "query" | "scan"
    kwargs,         \* the caller's query_kwargs / scan_kwargs dict (the object itself)
    entry_kwargs,   \* what that dict held when the current call was entered
    start_key,
    pg_retrieved,
    pglog,          \* the requests of the current call and their responses, in order
    pgresults,      \* the lists returned by the calls made so far
    \* ---- DynamoDbService.batch_upsert / transaction_write_items
    wpc,            \* "entry" | "loop" | "returned" | "raised"
    wop,            \* "batch_upsert" | "transaction_write_items"
    records,        \* the records argument
    batches,        \* put_batches / batches, as built before the for loop
    wnext,          \* index of the next batch of the for loop
    wcalls,         \* the batches sent to the service, in order
    wtable,         \* the items the table holds
    \* ---- S3Service.rename_file
    spc,            \* "entry" | "copied" | "returned" | "raised"
    objects,        \* the bucket: key -> None | Some(content)
    old_file_key,
    new_file_key,
    original,       \* what old_file_key held when rename_file was called
    s3calls         \* the S3 operations issued, in order

httpVars == <<hpc, query, upstreamCalls, upstreamBody, hret>>
bgVars == <<bgpc, stored, arg_batch_keys, batch_keys, tries, sleepy_time, retrieved, bglog>>
pgVars == <<pgpc, pgop, kwargs, entry_kwargs, start_key, pg_retrieved, pglog, pgresults>>
wrVars == <<wpc, wop, records, batches, wnext, wcalls, wtable>>
s3Vars == <<spc, objects, old_file_key, new_file_key, original, s3calls>>

vars == <<httpVars, bgVars, pgVars, wrVars, s3Vars>>

(***************************************************************************)
(* Generic helpers                                                         *)
(***************************************************************************)
Min(a, b) == IF a < b THEN a ELSE b

\* An Optional[...] value: <<>> is None, <<v>> is the value v.
None == <<>>
Some(v) == <<v>>
Optional(S) == {None} \cup { Some(v) : v \in S }

(***************************************************************************)
(* GET /get_questions  (app.py 34-48, utils.py 4-11)                       *)
(***************************************************************************)
\* Values a client may send.  "" is what ?category= (no value) binds to.
AmountValues == {0, 1, 5, 50}
CategoryValues == {"", "9"}
DifficultyValues == {"", "easy"}

\* The query string as FastAPI sees it: each parameter absent (None) or given.
QueryStrings ==
    [amount : Optional(AmountValues),
     category : Optional(CategoryValues),
     difficulty : Optional(DifficultyValues)]

\* amount: Optional[int] = Query(5)
DefaultAmount == 5

BindAmount(q) == IF q.amount # None THEN q.amount[1] ELSE DefaultAmount

\* category: Optional[str] = None, difficulty: Optional[str] = None
BindOptional(q, name) == q[name]

\* Python truthiness of an Optional[str]: None and "" are falsy.
TruthyStr(opt) == opt # None /\ opt[1] # ""

\* (a variant that forwards every parameter the request carries)
ForwardedIfGiven(opt) == opt # None

\* `if category:` / `if difficulty:` -- whether the parameter is forwarded.
Forwarded(opt) == TruthyStr(opt)

\* quizz_app_params as built by the handler.
QuizzAppParams(amount, category, difficulty) ==
    LET base == [n \in {"amount"} |-> amount]
        withCat == IF Forwarded(category)
                     THEN ("category" :> category[1]) @@ base
                     ELSE base
    IN  IF Forwarded(difficulty)
          THEN ("difficulty" :> difficulty[1]) @@ withCat
          ELSE withCat

\* Bodies the upstream may answer with.  response.json() parses a JSON body
\* into its value and raises on anything else.
UpstreamBodies == { "{code:0,results:[q1,q2]}", "{code:1,results:[]}", "{code:5,results:[]}",
                    "<html>503</html>" }

IsJson(body) == body # "<html>503</html>"

ResponseJson(body) ==
    CASE body = "{code:0,results:[q1,q2]}" -> [response_code |-> 0, results |-> <<"q1", "q2">>]
      [] body = "{code:1,results:[]}" -> [response_code |-> 1, results |-> <<>>]
      [] body = "{code:5,results:[]}" -> [response_code |-> 5, results |-> <<>>]

\* What get_questions hands back to FastAPI: `questions`, as parsed.
HandlerResult(body) == ResponseJson(body)

HttpIdle ==
    /\ hpc = "off"
    /\ query = None
    /\ upstreamCalls = <<>>
    /\ upstreamBody = None
    /\ hret = None

HttpInit ==
    /\ hpc = "idle"
    /\ query \in QueryStrings
    /\ upstreamCalls = <<>>
    /\ upstreamBody = None
    /\ hret = None

\* get_questions up to the requests.get inside get_questions_from_api.
GetQuestions ==
    /\ hpc = "idle"
    /\ LET amount == BindAmount(query)
           category == BindOptional(query, "category")
           difficulty == BindOptional(query, "difficulty")
       IN  upstreamCalls' = Append(upstreamCalls, QuizzAppParams(amount, category, difficulty))
    /\ hpc' = "waiting"
    /\ UNCHANGED <<query, upstreamBody, hret, bgVars, pgVars, wrVars, s3Vars>>

\* The upstream answers; response.json() succeeds and the handler returns.
UpstreamAnswers ==
    /\ hpc = "waiting"
    /\ \E body \in UpstreamBodies :
         /\ IsJson(body)
         /\ upstreamBody' = Some(body)
         /\ hret' = Some(HandlerResult(body))
    /\ hpc' = "returned"
    /\ UNCHANGED <<query, upstreamCalls, bgVars, pgVars, wrVars, s3Vars>>

\* requests.get raises, or the body is not JSON and response.json() raises.
UpstreamFails ==
    /\ hpc = "waiting"
    /\ \/ upstreamBody' = None
       \/ \E body \in UpstreamBodies : ~IsJson(body) /\ upstreamBody' = Some(body)
    /\ hpc' = "raised"
    /\ UNCHANGED <<query, upstreamCalls, hret, bgVars, pgVars, wrVars, s3Vars>>

HttpNext == GetQuestions \/ UpstreamAnswers \/ UpstreamFails

(***************************************************************************)
(* DynamoDbService.batch_get  (ddb_integration.py 92-126)                  *)
(***************************************************************************)
Tables == {"Quiz", "Score"}
KeyIds == {1, 2}

\* Largest number of keys in the batches tried.
MaxBatchKeys == 3

max_tries == 10
SleepCap == 32

RECURSIVE SetSum(_, _)
SetSum(f, D) == IF D = {} THEN 0
                ELSE LET d == CHOOSE x \in D : TRUE
                     IN  Cardinality(f[d].Keys) + SetSum(f, D \ {d})

\* batch_keys arguments: {table: {"Keys": [...]}} over one or more tables.
BatchKeyArgs ==
    { bk \in UNION { [D -> { [Keys |-> K] : K \in (SUBSET KeyIds) \ {{}} }] :
                        D \in (SUBSET Tables) \ {{}} } :
        SetSum(bk, DOMAIN bk) <= MaxBatchKeys }

RECURSIVE Ascending(_)
Ascending(K) == IF K = {} THEN <<>>
                ELSE LET k == CHOOSE x \in K : \A y \in K : x <= y
                     IN  <<k>> \o Ascending(K \ {k})

\* The item stored under key k of table t.
Item(t, k) == [table |-> t, id |-> k]

\* batch_get_item on `request`, leaving `left[t]` of each table's keys
\* unprocessed: the items of the processed keys that are stored, per table,
\* and the unprocessed keys of the tables that have any.
BatchGetItemResponse(request, left) ==
    LET found(t) == { k \in request[t].Keys \ left[t] : <<t, k>> \in stored }
    IN  [Responses |-> [t \in { u \in DOMAIN request : found(u) # {} } |->
                          [i \in 1..Cardinality(found(t)) |-> Item(t, Ascending(found(t))[i])]],
         UnprocessedKeys |-> [t \in { u \in DOMAIN request : left[u] # {} } |->
                                [Keys |-> left[t]]]]

\* Every response the service may give to `request`.
BatchGetItemResponses(request) ==
    { BatchGetItemResponse(request, left) :
        left \in { l \in [DOMAIN request -> SUBSET KeyIds] :
                     \A t \in DOMAIN request : l[t] \subseteq request[t].Keys } }

\* retrieved = {key: [] for key in batch_keys}
EmptyRetrieved(bk) == [t \in DOMAIN bk |-> <<>>]

\* (a variant that keeps only the latest response of each table)
CollectLatest(r, response) ==
    [t \in DOMAIN r |-> IF t \in DOMAIN response.Responses
                          THEN response.Responses[t] ELSE r[t]]

\* for key in response.get("Responses", []): retrieved[key] += response["Responses"][key]
Collect(r, response) ==
    [t \in DOMAIN r |-> IF t \in DOMAIN response.Responses
                          THEN r[t] \o response.Responses[t] ELSE r[t]]

\* (a variant without the cap)
NextSleepyTimeUncapped(s) == s * 2

\* sleepy_time = min(sleepy_time * 2, 32)
NextSleepyTime(s) == Min(s * 2, SleepCap)

\* (a variant that allows one try more)
KeepTryingInclusive(t) == t <= max_tries

\* `tries < max_tries`, the loop condition and the guard of the sleep
KeepTrying(t) == t < max_tries

BgCall(request, response) == [ev |-> "call", request |-> request, response |-> response]
BgRaise(request) == [ev |-> "raise", request |-> request]
BgSleep(secs) == [ev |-> "sleep", secs |-> secs]

BatchGetIdle ==
    /\ bgpc = "off"
    /\ stored = {}
    /\ arg_batch_keys = <<>>
    /\ batch_keys = <<>>
    /\ tries = 0
    /\ sleepy_time = 0
    /\ retrieved = <<>>
    /\ bglog = <<>>

BatchGetInit ==
    /\ bgpc = "entry"
    /\ arg_batch_keys \in BatchKeyArgs
    /\ stored \in SUBSET { <<t, k>> \in Tables \X KeyIds :
                             t \in DOMAIN arg_batch_keys /\ k \in arg_batch_keys[t].Keys }
    /\ batch_keys = arg_batch_keys
    /\ tries = 0
    /\ sleepy_time = 0
    /\ retrieved = <<>>
    /\ bglog = <<>>

\* Lines 108-112: the locals, and the first test of the loop condition.
BatchGetEnter ==
    /\ bgpc = "entry"
    /\ tries' = 0
    /\ sleepy_time' = 1
    /\ retrieved' = EmptyRetrieved(batch_keys)
    /\ bgpc' = IF KeepTrying(0) THEN "loop" ELSE "returned"
    /\ UNCHANGED <<stored, arg_batch_keys, batch_keys, bglog, httpVars, pgVars, wrVars, s3Vars>>

\* Lines 113-125: one pass of the loop, up to the next test of the loop
\* condition (and the return, when the loop ends).
BatchGetItem ==
    /\ bgpc = "loop"
    /\ \E response \in BatchGetItemResponses(batch_keys) :
         LET unprocessed == response.UnprocessedKeys
             called == Append(bglog, BgCall(batch_keys, response))
         IN  /\ retrieved' = Collect(retrieved, response)
             /\ IF DOMAIN unprocessed # {}
                  THEN /\ batch_keys' = unprocessed
                       /\ tries' = tries + 1
                       /\ IF KeepTrying(tries + 1)
                            THEN /\ bglog' = Append(called, BgSleep(sleepy_time))
                                 /\ sleepy_time' = NextSleepyTime(sleepy_time)
                                 /\ bgpc' = "loop"
                            ELSE /\ bglog' = called
                                 /\ sleepy_time' = sleepy_time
                                 /\ bgpc' = "returned"
                  ELSE /\ bglog' = called
                       /\ bgpc' = "returned"
                       /\ UNCHANGED <<batch_keys, tries, sleepy_time>>
    /\ UNCHANGED <<stored, arg_batch_keys, httpVars, pgVars, wrVars, s3Vars>>

\* batch_get_item raises (a ClientError); batch_get has no handler for it.
BatchGetItemRaises ==
    /\ bgpc = "loop"
    /\ bglog' = Append(bglog, BgRaise(batch_keys))
    /\ bgpc' = "raised"
    /\ UNCHANGED <<stored, arg_batch_keys, batch_keys, tries, sleepy_time, retrieved,
                   httpVars, pgVars, wrVars, s3Vars>>

BatchGetNext == BatchGetEnter \/ BatchGetItem \/ BatchGetItemRaises

(***************************************************************************)
(* DynamoDbService.query_table / scan_table  (ddb_integration.py 25-90)    *)
(* The two methods have the same body but for the operation they call.     *)
(***************************************************************************)
\* Number of items of the table; item i has key [id |-> i].
TableSize == 3

\* Largest number of requests followed within one call.
MaxRequests == 4

\* Number of calls the caller makes with the same dict.
MaxCalls == 2

Key(i) == [id |-> i]

\* The empty map: a value that is not None and is falsy in Python.
EmptyMap == <<>>

\* `if start_key:`
TruthyKey(opt) == opt # None /\ opt[1] # EmptyMap

\* `start_key is None`
IsNone(opt) == opt = None

\* Lines 49-50 / 81-82: the dict after `if start_key: kwargs["ExclusiveStartKey"] = start_key`
NextRequestKwargs(kw, sk) ==
    IF TruthyKey(sk) THEN ("ExclusiveStartKey" :> sk[1]) @@ kw ELSE kw

\* Where a request starts reading: after its ExclusiveStartKey, or at the start.
StartPosition(request) ==
    IF "ExclusiveStartKey" \in DOMAIN request THEN request["ExclusiveStartKey"].id ELSE 0

\* table.query(**kwargs) / table.scan(**kwargs): the service reads at least one
\* and at most Limit items from the start position, and names the last item
\* read in LastEvaluatedKey when items remain (or, having read up to Limit,
\* even when none remains).  Some(EmptyMap) stands for a LastEvaluatedKey
\* that is present and falsy.
PageResponses(request) ==
    LET pos == StartPosition(request)
        left == TableSize - pos
        sizes == IF left = 0 THEN {0} ELSE 1..Min(request["Limit"], left)
    IN  UNION { { [Items |-> [i \in 1..m |-> Key(pos + i)], LastEvaluatedKey |-> lek] :
                    lek \in IF pos + m < TableSize
                              THEN {Some(Key(pos + m)), Some(EmptyMap)}
                              ELSE {None} \cup (IF m > 0 THEN {Some(Key(pos + m))} ELSE {}) } :
                m \in sizes }

\* The dicts the caller passes: one ordinary parameter, no ExclusiveStartKey.
CallerKwargs == { [l \in {"Limit"} |-> n] : n \in 1..TableSize }

PageIdle ==
    /\ pgpc = "off"
    /\ pgop = "off"
    /\ kwargs = <<>>
    /\ entry_kwargs = <<>>
    /\ start_key = None
    /\ pg_retrieved = <<>>
    /\ pglog = <<>>
    /\ pgresults = <<>>

PageInit ==
    /\ pgpc = "entry"
    /\ pgop \in {"query", "scan"}
    /\ kwargs \in CallerKwargs
    /\ entry_kwargs = kwargs
    /\ start_key = None
    /\ pg_retrieved = <<>>
    /\ pglog = <<>>
    /\ pgresults = <<>>

\* Lines 43-47 / 75-79.
PageEnter ==
    /\ pgpc = "entry"
    /\ pg_retrieved' = <<>>
    /\ start_key' = None
    /\ pgpc' = "loop"
    /\ UNCHANGED <<pgop, kwargs, entry_kwargs, pglog, pgresults,
                   httpVars, bgVars, wrVars, s3Vars>>

\* Lines 48-54 / 80-86: one pass of the loop, and the return when done.
PageRequest ==
    /\ pgpc = "loop"
    /\ Len(pglog) < MaxRequests
    /\ kwargs' = NextRequestKwargs(kwargs, start_key)
    /\ \E response \in PageResponses(kwargs') :
         /\ pglog' = Append(pglog, [request |-> kwargs', response |-> response])
         /\ pg_retrieved' = pg_retrieved \o response.Items
         /\ start_key' = response.LastEvaluatedKey
         /\ IF IsNone(response.LastEvaluatedKey)
              THEN /\ pgpc' = "returned"
                   /\ pgresults' = Append(pgresults, [returned |-> pg_retrieved', log |-> pglog'])
              ELSE /\ pgpc' = "loop"
                   /\ pgresults' = pgresults
    /\ UNCHANGED <<pgop, entry_kwargs, httpVars, bgVars, wrVars, s3Vars>>

\* table.query / table.scan raises a ClientError, which is re-raised.  The
\* assignment to the dict, when there is one, has happened by then.
PageRaises ==
    /\ pgpc = "loop"
    /\ Len(pglog) < MaxRequests
    /\ kwargs' = NextRequestKwargs(kwargs, start_key)
    /\ pgpc' = "raised"
    /\ UNCHANGED <<pgop, entry_kwargs, start_key, pg_retrieved, pglog, pgresults,
                   httpVars, bgVars, wrVars, s3Vars>>

\* The caller calls again with the same dict.
PageCallAgain ==
    /\ pgpc = "returned"
    /\ Len(pgresults) < MaxCalls
    /\ pgpc' = "entry"
    /\ entry_kwargs' = kwargs
    /\ pglog' = <<>>
    /\ UNCHANGED <<pgop, kwargs, start_key, pg_retrieved, pgresults,
                   httpVars, bgVars, wrVars, s3Vars>>

PageNext == PageEnter \/ PageRequest \/ PageRaises \/ PageCallAgain

(***************************************************************************)
(* DynamoDbService.batch_upsert / transaction_write_items                  *)
(* (ddb_integration.py 128-154, 177-211)                                   *)
(***************************************************************************)
\* Longest records list tried.
MaxRecords == 201

BatchWriteLimit == 25
batch_size == 100

\* TypeSerializer.serialize of an int: {"N": "<digits>"}
Serialize(v) == [N |-> ToString(v)]

\* __python_obj_to_dynamo_obj
PythonObjToDynamoObj(obj) == [k \in DOMAIN obj |-> Serialize(obj[k])]

\* put_requests (lines 139-142)
PutRequests(recs) ==
    [i \in 1..Len(recs) |-> [PutRequest |-> [Item |-> PythonObjToDynamoObj(recs[i])]]]

\* TransactItems of one batch (lines 198-206)
TransactItems(batch) ==
    [i \in 1..Len(batch) |-> [Put |-> [TableName |-> "Quiz", Item |-> PythonObjToDynamoObj(batch[i])]]]

\* (a variant whose slices run one element too far)
BatchesOverlapping(seq, size) ==
    [b \in 1..((Len(seq) + size - 1) \div size) |->
        SubSeq(seq, (b - 1) * size + 1, Min(b * size + 1, Len(seq)))]

\* [seq[i : i + size] for i in range(0, len(seq), size)]
Batches(seq, size) ==
    [b \in 1..((Len(seq) + size - 1) \div size) |->
        SubSeq(seq, (b - 1) * size + 1, Min(b * size, Len(seq)))]

\* put_batches of batch_upsert (lines 139-146), batches of
\* transaction_write_items (lines 191-195).
WriteBatches(op, recs) ==
    IF op = "batch_upsert"
      THEN Batches(PutRequests(recs), BatchWriteLimit)
      ELSE Batches(recs, batch_size)

\* The items a request asks the service to put.
RequestedItems(request) ==
    { IF "PutRequest" \in DOMAIN request[i] THEN request[i].PutRequest.Item
                                            ELSE request[i].Put.Item : i \in 1..Len(request) }

\* The records lists tried: n records with ids 1..n.
RecordLists == { [i \in 1..n |-> [id |-> i]] : n \in 0..MaxRecords }

WriteIdle ==
    /\ wpc = "off"
    /\ wop = "off"
    /\ records = <<>>
    /\ batches = <<>>
    /\ wnext = 0
    /\ wcalls = <<>>
    /\ wtable = {}

WriteInit ==
    /\ wpc = "entry"
    /\ wop \in {"batch_upsert", "transaction_write_items"}
    /\ records \in RecordLists
    /\ batches = <<>>
    /\ wnext = 0
    /\ wcalls = <<>>
    /\ wtable = {}

\* Lines 139-147 / 191-196: the batches are built and the for loop is entered.
WriteEnter ==
    /\ wpc = "entry"
    /\ batches' = WriteBatches(wop, records)
    /\ wnext' = 1
    /\ wpc' = IF batches' = <<>> THEN "returned" ELSE "loop"
    /\ UNCHANGED <<wop, records, wcalls, wtable, httpVars, bgVars, pgVars, s3Vars>>

\* After a call that did not raise: the next batch, or the return.
WriteAdvance ==
    /\ wnext' = wnext + 1
    /\ wpc' = IF wnext = Len(batches) THEN "returned" ELSE "loop"

\* Lines 148-151: batch_write_item answers 200.  The service may have put only
\* some of the items and name the rest in UnprocessedItems, which the code
\* does not read.
BatchWriteItem ==
    /\ wpc = "loop"
    /\ wop = "batch_upsert"
    /\ LET request == batches[wnext]
       IN  /\ wcalls' = Append(wcalls, request)
           /\ \E unprocessed \in {0, 1} :
                wtable' = wtable \cup RequestedItems(SubSeq(request, 1, Len(request) - unprocessed))
    /\ WriteAdvance
    /\ UNCHANGED <<wop, records, batches, httpVars, bgVars, pgVars, s3Vars>>

\* Lines 197-208: transact_write_items answers 200: every put of the batch is applied.
TransactWriteItems ==
    /\ wpc = "loop"
    /\ wop = "transaction_write_items"
    /\ LET request == TransactItems(batches[wnext])
       IN  /\ wcalls' = Append(wcalls, request)
           /\ wtable' = wtable \cup RequestedItems(request)
    /\ WriteAdvance
    /\ UNCHANGED <<wop, records, batches, httpVars, bgVars, pgVars, s3Vars>>

\* The call raises, or answers with a status other than 200 and the method
\* raises (lines 151-154 / 208-211): nothing of this batch is written.
WriteFails ==
    /\ wpc = "loop"
    /\ wcalls' = Append(wcalls, IF wop = "batch_upsert" THEN batches[wnext]
                                ELSE TransactItems(batches[wnext]))
    /\ wpc' = "raised"
    /\ UNCHANGED <<wop, records, batches, wnext, wtable, httpVars, bgVars, pgVars, s3Vars>>

WriteNext == WriteEnter \/ BatchWriteItem \/ TransactWriteItems \/ WriteFails

(***************************************************************************)
(* S3Service.rename_file  (s3_integration.py 100-121)                      *)
(***************************************************************************)
ObjectKeys == {"a.csv", "b.csv", "c.csv"}
Contents == {"x", "y"}

S3Call(op, key, ok) == [op |-> op, key |-> key, ok |-> ok]

\* The bucket after copy_object(Key=dst, CopySource=src) succeeded.
Copied(objs, src, dst) == [objs EXCEPT ![dst] = objs[src]]

\* The bucket after delete_object(Key=key) succeeded.
Deleted(objs, key) == [objs EXCEPT ![key] = None]

S3Idle ==
    /\ spc = "off"
    /\ objects = <<>>
    /\ old_file_key = ""
    /\ new_file_key = ""
    /\ original = None
    /\ s3calls = <<>>

S3Init ==
    /\ spc = "entry"
    /\ objects \in [ObjectKeys -> Optional(Contents)]
    /\ old_file_key \in ObjectKeys
    /\ new_file_key \in ObjectKeys
    /\ original = objects[old_file_key]
    /\ s3calls = <<>>

\* Lines 113-117: copy_object succeeds (the source exists).  rename_file does
\* not compare the two keys, so a copy of a key onto itself is issued like any
\* other; whether it succeeds is the service's choice.
CopyObject ==
    /\ spc = "entry"
    /\ objects[old_file_key] # None
    /\ objects' = Copied(objects, old_file_key, new_file_key)
    /\ s3calls' = Append(s3calls, S3Call("copy_object", new_file_key, TRUE))
    /\ spc' = "copied"
    /\ UNCHANGED <<old_file_key, new_file_key, original, httpVars, bgVars, pgVars, wrVars>>

\* copy_object raises (no such key, access denied, ...): re-raised at line 121.
CopyObjectRaises ==
    /\ spc = "entry"
    /\ s3calls' = Append(s3calls, S3Call("copy_object", new_file_key, FALSE))
    /\ spc' = "raised"
    /\ UNCHANGED <<objects, old_file_key, new_file_key, original, httpVars, bgVars, pgVars, wrVars>>

\* Line 119: delete_object succeeds, and rename_file returns.
DeleteObject ==
    /\ spc = "copied"
    /\ objects' = Deleted(objects, old_file_key)
    /\ s3calls' = Append(s3calls, S3Call("delete_object", old_file_key, TRUE))
    /\ spc' = "returned"
    /\ UNCHANGED <<old_file_key, new_file_key, original, httpVars, bgVars, pgVars, wrVars>>

\* delete_object raises: re-raised at line 121, the copy stays.
DeleteObjectRaises ==
    /\ spc = "copied"
    /\ s3calls' = Append(s3calls, S3Call("delete_object", old_file_key, FALSE))
    /\ spc' = "raised"
    /\ UNCHANGED <<objects, old_file_key, new_file_key, original, httpVars, bgVars, pgVars, wrVars>>

S3Next == CopyObject \/ CopyObjectRaises \/ DeleteObject \/ DeleteObjectRaises

(***************************************************************************)
(* Specifications                                                          *)
(***************************************************************************)
InitHttp == HttpInit /\ BatchGetIdle /\ PageIdle /\ WriteIdle /\ S3Idle
SpecHttp == InitHttp /\ [][HttpNext]_vars

InitBatchGet == BatchGetInit /\ HttpIdle /\ PageIdle /\ WriteIdle /\ S3Idle
SpecBatchGet == InitBatchGet /\ [][BatchGetNext]_vars

InitPage == PageInit /\ HttpIdle /\ BatchGetIdle /\ WriteIdle /\ S3Idle
SpecPage == InitPage /\ [][PageNext]_vars

InitWrite == WriteInit /\ HttpIdle /\ BatchGetIdle /\ PageIdle /\ S3Idle
SpecWrite == InitWrite /\ [][WriteNext]_vars

InitS3 == S3Init /\ HttpIdle /\ BatchGetIdle /\ PageIdle /\ WriteIdle
SpecS3 == InitS3 /\ [][S3Next]_vars

(***************************************************************************)
(* Claims: GET /get_questions                                              *)
(***************************************************************************)
OptionalNames == {"category", "difficulty"}

\* The single upstream call carries exactly the parameters of `names`.
CallCarries(names) ==
    /\ Len(upstreamCalls) = 1
    /\ DOMAIN upstreamCalls[1] = {"amount"} \cup names
    /\ upstreamCalls[1]["amount"] = (IF query.amount = None THEN 5 ELSE query.amount[1])
    /\ \A n \in names : upstreamCalls[1][n] = query[n][1]

ReturnsUpstreamJson ==
    /\ hpc = "idle" => upstreamCalls = <<>>
    /\ hpc = "returned" =>
         /\ upstreamBody # None
         /\ hret = Some(ResponseJson(upstreamBody[1]))

\* C1 (as stated): every request makes exactly one upstream call whose
\* parameters are the received amount (5 when none is given) plus category and
\* difficulty whenever the request provides them, and the handler returns the
\* upstream's parsed JSON unchanged.
C1_AsStated ==
    /\ hpc # "idle" => CallCarries({ n \in OptionalNames : query[n] # None })
    /\ ReturnsUpstreamJson

\* C1 (amended): as above, but category and difficulty are forwarded exactly
\* when the request provides them with a non-empty value; a parameter given
\* as the empty string is dropped.
C1_ForwardsNonEmptyParams ==
    /\ hpc # "idle" =>
         CallCarries({ n \in OptionalNames : query[n] # None /\ query[n] # Some("") })
    /\ ReturnsUpstreamJson

\* A request with no amount, an empty category and a difficulty has been served.
C1_Witness ==
    /\ hpc = "returned"
    /\ query = [amount |-> None, category |-> Some(""), difficulty |-> Some("easy")]
    /\ hret = Some([response_code |-> 0, results |-> <<"q1", "q2">>])

(***************************************************************************)
(* Claims: DynamoDbService.batch_get                                       *)
(***************************************************************************)
\* The batch_get_item calls made so far (the last one may have raised).
BgRequests == SelectSeq(bglog, LAMBDA e : e.ev # "sleep")

\* Those that were answered.
BgAnswered == SelectSeq(bglog, LAMBDA e : e.ev = "call")

BgSleeps == SelectSeq(bglog, LAMBDA e : e.ev = "sleep")

NoneLeft(response) == DOMAIN response.UnprocessedKeys = {}

\* C2: batch_get makes at most 10 batch_get_item calls, makes no call after a
\* response whose UnprocessedKeys is empty, returns exactly when a response has
\* none left or the 10th call has been answered, and every call after the first
\* requests exactly the UnprocessedKeys of the previous response.
C2_RetriesUnprocessedKeys ==
    /\ Len(BgRequests) <= 10
    /\ \A i \in 1..Len(BgRequests) :
         /\ i = 1 => BgRequests[i].request = arg_batch_keys
         /\ i > 1 => /\ ~NoneLeft(BgRequests[i - 1].response)
                     /\ BgRequests[i].request = BgRequests[i - 1].response.UnprocessedKeys
    /\ bgpc = "returned" =>
         /\ BgAnswered # <<>>
         /\ BgAnswered = BgRequests
         /\ NoneLeft(BgAnswered[Len(BgAnswered)].response) \/ Len(BgAnswered) = 10
    /\ bgpc = "loop" =>
         /\ Len(BgAnswered) < 10
         /\ BgAnswered # <<>> => ~NoneLeft(BgAnswered[Len(BgAnswered)].response)

\* batch_get returned at the third call, which left no key of two tables unprocessed.
C2_Witness ==
    /\ bgpc = "returned"
    /\ DOMAIN arg_batch_keys = Tables
    /\ Len(BgAnswered) = 3
    /\ NoneLeft(BgAnswered[3].response)

\* C8: the k-th sleep lasts min(2^(k-1), 32) seconds; calls and sleeps alternate,
\* so exactly one sleep separates two consecutive calls; a sleep follows only a
\* response that left keys unprocessed; and no sleep follows the last response
\* before the return, the 10th call included (at most 9 sleeps).
C8_ExponentialBackoff ==
    /\ \A k \in 1..Len(BgSleeps) : BgSleeps[k].secs = Min(2 ^ (k - 1), 32)
    /\ Len(BgSleeps) <= 9
    /\ \A i \in 1..Len(bglog) :
         /\ (i % 2 = 1) <=> (bglog[i].ev # "sleep")
         /\ bglog[i].ev = "sleep" => ~NoneLeft(bglog[i - 1].response)
    /\ bgpc = "returned" => bglog[Len(bglog)].ev = "call"
    /\ bgpc = "loop" /\ bglog # <<>> => bglog[Len(bglog)].ev = "sleep"

\* All ten calls were made: nine sleeps of 1, 2, 4, 8, 16, 32, 32, 32, 32 seconds.
C8_Witness ==
    /\ bgpc = "returned"
    /\ Len(BgAnswered) = 10
    /\ [k \in 1..Len(BgSleeps) |-> BgSleeps[k].secs] = <<1, 2, 4, 8, 16, 32, 32, 32, 32>>

RECURSIVE Returned(_, _)
\* The items the answered calls returned for table t, in response order.
Returned(calls, t) ==
    IF calls = <<>> THEN <<>>
    ELSE LET r == calls[Len(calls)].response.Responses
         IN  Returned(SubSeq(calls, 1, Len(calls) - 1), t)
               \o (IF t \in DOMAIN r THEN r[t] ELSE <<>>)

Occurrences(seq, x) == Cardinality({ i \in 1..Len(seq) : seq[i] = x })

\* The requested keys that have an item in their table.
Retrievable == { <<t, k>> \in stored : t \in DOMAIN arg_batch_keys /\ k \in arg_batch_keys[t].Keys }

Unretrieved == { p \in Retrievable : Occurrences(retrieved[p[1]], Item(p[1], p[2])) = 0 }

\* C9: when batch_get returns, its result has one entry per table of the
\* original batch_keys, each entry is the concatenation in response order of the
\* items every response returned for that table (no item twice), and the item
\* of every requested key that has one is in the result unless the 10th
\* response still reported UnprocessedKeys; then the partial result is returned
\* as a normal value.
C9_ResultOfBatchGet ==
    bgpc = "returned" =>
        /\ DOMAIN retrieved = DOMAIN arg_batch_keys
        /\ \A t \in DOMAIN retrieved : retrieved[t] = Returned(BgAnswered, t)
        /\ \A p \in Retrievable : Occurrences(retrieved[p[1]], Item(p[1], p[2])) <= 1
        /\ Unretrieved # {} =>
             /\ Len(BgAnswered) = 10
             /\ ~NoneLeft(BgAnswered[10].response)

\* batch_get returned a partial result after the 10th call: one item retrieved
\* (by the 10th response), another still unprocessed.
C9_Witness ==
    /\ bgpc = "returned"
    /\ Len(BgAnswered) = 10
    /\ Unretrieved # {}
    /\ \E t \in DOMAIN retrieved : Len(retrieved[t]) = 1 /\ Returned(SubSeq(BgAnswered, 1, 9), t) = <<>>

(***************************************************************************)
(* Claims: DynamoDbService.query_table / scan_table                        *)
(***************************************************************************)
HasStartKey(kw) == "ExclusiveStartKey" \in DOMAIN kw

RECURSIVE PageItems(_)
\* The Items of the pages of a log, concatenated in page order.
PageItems(log) ==
    IF log = <<>> THEN <<>>
    ELSE PageItems(SubSeq(log, 1, Len(log) - 1)) \o log[Len(log)].response.Items

\* C4: a call entered with no ExclusiveStartKey in kwargs sends its first
\* request without one, sends every later request with ExclusiveStartKey equal
\* to the LastEvaluatedKey of the previous response, goes on exactly while
\* responses carry a LastEvaluatedKey, and returns the Items of all pages
\* concatenated in page order -- whatever LastEvaluatedKey values the service
\* returns, falsy ones included.
C4_FollowsLastEvaluatedKey ==
    ~HasStartKey(entry_kwargs) =>
        /\ pglog # <<>> => ~HasStartKey(pglog[1].request)
        /\ \A i \in 2..Len(pglog) :
             /\ pglog[i - 1].response.LastEvaluatedKey # None
             /\ HasStartKey(pglog[i].request)
             /\ pglog[i].request["ExclusiveStartKey"] = pglog[i - 1].response.LastEvaluatedKey[1]
        /\ pgpc = "returned" =>
             /\ pglog[Len(pglog)].response.LastEvaluatedKey = None
             /\ pgresults[Len(pgresults)].returned = PageItems(pglog)
        /\ pgpc = "loop" /\ pglog # <<>> => pglog[Len(pglog)].response.LastEvaluatedKey # None

\* Every LastEvaluatedKey of the log is None or a key of the table.
Truthful(log) == \A i \in 1..Len(log) : log[i].response.LastEvaluatedKey # Some(EmptyMap)

\* What does hold of C4: the same statement for the calls in which every
\* LastEvaluatedKey returned is truthy.
C4_HoldsForTruthyKeys == Truthful(pglog) => C4_FollowsLastEvaluatedKey

\* C10: a call of query_table or scan_table leaves the caller's dict as it
\* found it, so two calls with the same dict return the same list.  (Stated for
\* the runs in which every LastEvaluatedKey is a key of the table.)
C10_KwargsUnchanged ==
    (Truthful(pglog) /\ \A c \in 1..Len(pgresults) : Truthful(pgresults[c].log)) =>
        /\ pgpc = "returned" => kwargs = entry_kwargs
        /\ Len(pgresults) = 2 => pgresults[1].returned = pgresults[2].returned

\* What does hold of C10: a call that needs a single request leaves the dict
\* as it found it.
C10_HoldsForSinglePage == (pgpc = "returned" /\ Len(pglog) = 1) => kwargs = entry_kwargs

(***************************************************************************)
(* Claims: DynamoDbService.batch_upsert / transaction_write_items          *)
(***************************************************************************)
RECURSIVE Flat(_)
Flat(seqs) == IF seqs = <<>> THEN <<>>
              ELSE Flat(SubSeq(seqs, 1, Len(seqs) - 1)) \o seqs[Len(seqs)]

\* The put sent for a record by the running method.
PutOf(rec) ==
    IF wop = "batch_upsert"
      THEN [PutRequest |-> [Item |-> PythonObjToDynamoObj(rec)]]
      ELSE [Put |-> [TableName |-> "Quiz", Item |-> PythonObjToDynamoObj(rec)]]

\* C3: every batch_write_item call carries between 1 and 25 put requests and
\* every transact_write_items call between 1 and 100 puts; the calls made so
\* far, concatenated in call order, are the puts of a prefix of the records
\* list, in order; and when the method returns they are the puts of the whole
\* list (no call at all for an empty list).
C3_BatchLimits ==
    LET sent == Flat(wcalls)
    IN  /\ \A i \in 1..Len(wcalls) :
             /\ Len(wcalls[i]) >= 1
             /\ Len(wcalls[i]) <= (IF wop = "batch_upsert" THEN 25 ELSE 100)
        /\ Len(sent) <= Len(records)
        /\ \A j \in 1..Len(sent) : sent[j] = PutOf(records[j])
        /\ wpc = "returned" => Len(sent) = Len(records)

\* transaction_write_items returned after sending 201 records in calls of 100, 100 and 1.
C3_Witness ==
    /\ wpc = "returned"
    /\ wop = "transaction_write_items"
    /\ Len(records) = 201
    /\ [i \in 1..Len(wcalls) |-> Len(wcalls[i])] = <<100, 100, 1>>

Written(rec) == PythonObjToDynamoObj(rec) \in wtable

\* C5: when batch_upsert returns without raising, every record of the input
\* list has been written to the table, whatever the service answered.
C5_UpsertsEveryRecordOrRaises ==
    (wop = "batch_upsert" /\ wpc = "returned") =>
        \A i \in 1..Len(records) : Written(records[i])

\* C6: after transaction_write_items, returned or raised, either all records
\* of the list are in the table or none is; none is when it raised.
C6_AllOrNothing ==
    (wop = "transaction_write_items" /\ wpc \in {"returned", "raised"}) =>
        /\ \/ \A i \in 1..Len(records) : Written(records[i])
           \/ \A i \in 1..Len(records) : ~Written(records[i])
        /\ wpc = "raised" => \A i \in 1..Len(records) : ~Written(records[i])

(***************************************************************************)
(* Claims: S3Service.rename_file                                           *)
(***************************************************************************)
\* C7: for every pair of keys, the two being equal included, the content that
\* old_file_key held is at every moment stored under old_file_key or under
\* new_file_key; it is stored under new_file_key when rename_file returns; and
\* delete_object is not issued when copy_object raised.
C7_RenameKeepsObject ==
    original # None =>
        /\ objects[old_file_key] = original \/ objects[new_file_key] = original
        /\ spc = "returned" => objects[new_file_key] = original
        /\ \A i \in 1..Len(s3calls) : s3calls[i].op = "delete_object" => s3calls[1].ok

\* What does hold of C7: the same statement for two distinct keys.
C7_HoldsForDistinctKeys == old_file_key # new_file_key => C7_RenameKeepsObject

====
